---- MODULE Spec2Model ----
(***************************************************************************)
(* Model of src/pycamb/pycamb.py.                                          *)
(*                                                                         *)
(* pycamb.__call__, one invocation of the CAMB wrapper: the main thread    *)
(* merges the parameters, plans the output files, creates one FIFO per     *)
(* planned entry plus the parameter FIFO, starts a parameter-writer thread *)
(* and ONE output-reader thread, runs the executable with                  *)
(* subprocess.check_output, releases or joins the reader and unlinks the   *)
(* FIFOs (Spec, SpecPlan); several invocations of one handle one after the *)
(* other (SpecCalls) and two at the same time (SpecTwo).                   *)
(*                                                                         *)
(* pycamb.derivative (SpecDeriv), and the parameter text of writeparams    *)
(* given to _read_ini (SpecIni).                                           *)
(*                                                                         *)
(* In the runs a Python string is a pair <<r, s>>: s is its literal part   *)
(* and r the random part that mktemp puts in front of its suffix (r = 0    *)
(* for a string that is not a mktemp name).                                *)
(***************************************************************************)
EXTENDS Integers, Sequences, FiniteSets, TLC

(* ------------------------------ bounds --------------------------------- *)

\* number of distinct random names mktemp can return for one suffix
NumTmpNames == 2
\* largest number of planned output entries explored by the threaded runs
MaxChannels == 2
\* largest exit status of the executable that is explored
MaxStatus == 2
\* largest number of non-switch keys the caller overrides at once
MaxOther == 1
\* largest magnitude of a parameter value and of a step given to derivative
MaxNum == 3
\* largest number of invocations made one after the other on one handle
MaxCalls == 2
\* largest number of FIFOs that the second of two concurrent runs creates
MaxPeerFifos == 2

(* --------------------------- strings and dicts ------------------------- *)

Text(s) == <<0, s>>

TmpNames == 1..NumTmpNames

EmptyDict == [k \in {} |-> Text("")]

\* a plausible slip: the merge written the other way round
UpdateLeftBiased(d, o) ==
    [k \in (DOMAIN d) \cup (DOMAIN o) |-> IF k \in DOMAIN d THEN d[k] ELSE o[k]]

\* d.update(o): the right operand wins on every key it has
Update(d, o) ==
    [k \in (DOMAIN d) \cup (DOMAIN o) |-> IF k \in DOMAIN o THEN o[k] ELSE d[k]]

\* for k in ks: d.pop(k, None)
PopAll(d, ks) == [k \in (DOMAIN d) \ ks |-> d[k]]

\* d[k] = v
SetItem(d, k, v) == [x \in (DOMAIN d) \cup {k} |-> IF x = k THEN v ELSE d[x]]

(* ------------------------------ constants ------------------------------ *)

\* the keys __call__ subscripts p with, in the order of lines 74-78
SwitchKeys ==
    <<"get_scalar_cls", "get_vector_cls", "get_tensor_cls", "do_lensing",
      "get_transfer">>

NoName == "None"

\* the module-level dict; note the key 'total_output_file:' (with a colon)
_output_files ==
    [k \in {"scalar_output_file", "vector_output_file", "tensor_output_file",
            "total_output_file:", "lensed_output_file",
            "lens_potential_output_file", "lensed_total_output_file",
            "transfer_filename(1)", "transfer_matterpower(1)"} |->
        CASE k = "scalar_output_file" -> "scalar"
          [] k = "vector_output_file" -> "vector"
          [] k = "tensor_output_file" -> "tensor"
          [] k = "lensed_output_file" -> "lensed"
          [] k = "lens_potential_output_file" -> "lens_potential"
          [] k = "transfer_filename(1)" -> "transfer"
          [] k = "transfer_matterpower(1)" -> "transfer_matterpower"
          [] OTHER -> NoName]

\* the embedded _defaults text as _read_ini loads it: the five switches are
\* F, the seven output-file keys and the two transfer file keys have file
\* names, and the other keys are represented by l_max_scalar
_defaults ==
    [k \in {"get_scalar_cls", "get_vector_cls", "get_tensor_cls",
            "get_transfer", "do_lensing", "l_max_scalar",
            "transfer_filename(1)", "transfer_matterpower(1)",
            "scalar_output_file", "vector_output_file", "tensor_output_file",
            "total_output_file", "lensed_output_file",
            "lensed_total_output_file", "lens_potential_output_file"} |->
        CASE k \in {"get_scalar_cls", "get_vector_cls", "get_tensor_cls",
                    "get_transfer", "do_lensing"} -> Text("F")
          [] k = "l_max_scalar" -> Text("2200")
          [] k = "transfer_filename(1)" -> Text("transfer_out.dat")
          [] k = "transfer_matterpower(1)" -> Text("matterpower.dat")
          [] k = "scalar_output_file" -> Text("scalCls.dat")
          [] k = "vector_output_file" -> Text("vecCls.dat")
          [] k = "tensor_output_file" -> Text("tensCls.dat")
          [] k = "total_output_file" -> Text("totCls.dat")
          [] k = "lensed_output_file" -> Text("lensedCls.dat")
          [] k = "lensed_total_output_file" -> Text("lensedtotCls.dat")
          [] OTHER -> Text("lenspotentialCls.dat")]

Range(s) == {s[i] : i \in 1..Len(s)}

(* ------------------------------ the plan ------------------------------- *)

\* p[k]=='T' for a key the dict has (a missing key is MissingSwitch's case)
On(q, k) == k \in DOMAIN q /\ q[k] = Text("T")

\* lines 73-78: the list outputfiles built from the five switches
PlanOf(q) ==
    (IF On(q, "get_scalar_cls") THEN <<"scalar_output_file">> ELSE <<>>)
    \o (IF On(q, "get_vector_cls") THEN <<"vector_output_file">> ELSE <<>>)
    \o (IF On(q, "get_tensor_cls") THEN <<"tensor_output_file">> ELSE <<>>)
    \o (IF On(q, "do_lensing")
        THEN <<"lensed_output_file", "lensed_output_file">> ELSE <<>>)
    \o (IF On(q, "get_transfer")
        THEN <<"transfer_filename(1)", "transfer_matterpower(1)">> ELSE <<>>)

\* a plausible slip: the last subscript written as p.get('get_transfer')
MissingSwitchButLast(q) ==
    \E i \in 1..(Len(SwitchKeys) - 1) : SwitchKeys[i] \notin DOMAIN q

\* the subscripts p['...'] of lines 74-78 raise KeyError on a missing key
MissingSwitch(q) == \E i \in 1..Len(SwitchKeys) : SwitchKeys[i] \notin DOMAIN q

(* ------------------------------- inputs -------------------------------- *)

\* values a caller gives a switch: the truthy token and another token
SwitchTokens == {Text("T"), Text("t")}

\* keys a caller may override besides the switches: every key of
\* _output_files, the key total_output_file, a key of the defaults and a
\* key the defaults lack
OtherKeys ==
    (DOMAIN _output_files) \cup {"total_output_file", "l_max_scalar", "omega_x"}

SwitchOverrides ==
    UNION {[S -> SwitchTokens] : S \in SUBSET Range(SwitchKeys)}

OtherOverrides ==
    {[k \in S |-> Text("usr")] : S \in {T \in SUBSET OtherKeys : Cardinality(T) <= MaxOther}}

\* **params of a call
Overrides == {Update(s, o) : s \in SwitchOverrides, o \in OtherOverrides}

\* self.defaults: the embedded defaults, or a caller's ini that lacks a switch
DefaultsInputs ==
    {_defaults} \cup {PopAll(_defaults, {SwitchKeys[i]}) : i \in 1..Len(SwitchKeys)}

\* the switches a caller turns on
SwitchesOn == {[k \in S |-> Text("T")] : S \in SUBSET Range(SwitchKeys)}

\* the (defaults, params) pairs of the threaded runs: the embedded defaults
\* with switches turned on for a plan of at most MaxChannels entries; the
\* same with at most the first switch on and other keys overridden; and
\* defaults that lack a switch, with at most one switch turned on
RunInputs ==
    {<<_defaults, o>> : o \in {s \in SwitchesOn : Len(PlanOf(Update(_defaults, s))) <= MaxChannels}}
    \cup {<<_defaults, Update(s, o)>> :
            s \in {t \in SwitchesOn : DOMAIN t \subseteq {SwitchKeys[1]}},
            o \in OtherOverrides}
    \cup {<<d, s>> : d \in DefaultsInputs,
                     s \in {t \in SwitchesOn : Cardinality(DOMAIN t) <= 1}}

(* ------------------------------- state --------------------------------- *)

VARIABLES
    defaults,     \* self.defaults
    params,       \* **params of the call
    p,            \* the local dict p
    outputfiles,  \* the local list outputfiles
    paramfile,    \* the local paramfile (NoPath before line 84)
    result,       \* the local dict result
    mainpc,       \* position of the main thread in __call__
    mi,           \* index of the main thread's current for loop
    err,          \* the exception that left __call__
    fs,           \* the paths that exist in the filesystem
    created,      \* the paths this call has created with os.mkfifo
    fifo,         \* per created FIFO: who holds its read end (r) and its
                  \* write end (w), blocked openers included, and the data
                  \* written and not yet read
    woken,        \* the blocked openers whose partner has arrived
    wppc,         \* position of the writeparams thread
    paramtext,    \* the parameter set written into the parameter FIFO
    ropc,         \* position of the readoutputs thread
    ri,           \* index of the readoutputs for loop
    read_any,     \* read_any[0]
    ro_started,   \* the Event ro_started
    childpc,      \* position of the executable
    childCur,     \* the FIFO the executable is opening or has open
    childOpened,  \* the output paths the executable has opened
    received,     \* the parameter set the executable has read
    status,       \* the executable's exit status
    stdout,       \* the executable's captured standard output
    dpc,          \* position of derivative (lines 124-135)
    dvalue,       \* params[dparam], the entry of the caller's dict
    dorig,        \* params[dparam] as it was when derivative was called
    delta,        \* the step argument of derivative
    dcalls,       \* the values of dparam of the calls self(**params) so far
    inipc,        \* position of the write and re-read of a parameter text
    inidict,      \* the mapping that is written
    initext,      \* the text written for it, as the pieces joined by newlines
    iniresult,    \* what _read_ini makes of the text
    undecoded,    \* the plan entries whose loadtxt raised (line 99), by index
    callno,       \* the number of the invocation on the handle, from 1
    peerpc,       \* position of a second run on the same handle
    peerpath,     \* the name its last mktemp returned
    peerFifos,    \* the paths that name a FIFO the second run created
    peerCreated,  \* every path the second run has created a FIFO at
    crossed       \* <<task, path>>: a task of the first run opened or
                  \* unlinked the FIFO that the second run created at path

derivVars == <<dpc, dvalue, dorig, delta, dcalls>>
iniVars == <<inipc, inidict, initext, iniresult>>
histVars == <<undecoded>>
callVars == <<callno>>
peerVars == <<peerpc, peerpath, peerFifos, peerCreated, crossed>>
frameVars == <<derivVars, iniVars, histVars, callVars, peerVars>>
inputVars == <<defaults, params>>
mainVars == <<p, outputfiles, paramfile, result, mainpc, mi, err>>
fsVars == <<fs, created>>
kernelVars == <<fifo, woken>>
wpVars == <<wppc, paramtext>>
roVars == <<ropc, ri, read_any, ro_started>>
childVars == <<childpc, childCur, childOpened, received, status, stdout>>

vars == <<frameVars, inputVars, mainVars, fsVars, kernelVars, wpVars, roVars, childVars>>

NoPath == <<0, "">>

NoErr == [type |-> "none", returncode |-> 0, output |-> ""]

Raised(t) == [type |-> t, returncode |-> 0, output |-> ""]

\* a plausible slip: the failure reported without the status and the output
CalledProcessErrorBare(s, out) == [type |-> "CalledProcessError", returncode |-> 1, output |-> ""]

\* subprocess.CalledProcessError(returncode, cmd, output)
CalledProcessError(s, out) == [type |-> "CalledProcessError", returncode |-> s, output |-> out]

\* what the executable may print and how it may exit
Outputs == {"out_a", "out_b"}
ExitStatuses == 0..MaxStatus

\* what the executable may write into an output file before closing it
Contents == {"none", "table", "garbage"}

\* tempfile.mktemp(suffix): a name that does not exist when it is called
mktemp(suffix) == {<<n, suffix>> : n \in TmpNames} \ fs

\* numpy.loadtxt(f) on everything read up to end of file: a table, or an
\* exception ("fail") on text that is no table; on an empty stream it is an
\* empty array or an exception, depending on the numpy version
loadtxt(data) ==
    CASE data = "table" -> {"table"}
      [] data = "garbage" -> {"fail"}
      [] OTHER -> {"empty", "fail"}

(* ------------------------------ numbers -------------------------------- *)

\* A Python number is [kind, q]: an int n is [kind |-> "int", q |-> 4 * n]
\* and a float x is [kind |-> "float", q |-> 4 * x] (quarters, so that the
\* halves of the steps explored are exact).  None is a value of its own.
IntNum(n) == [kind |-> "int", q |-> 4 * n]

FloatNum(q) == [kind |-> "float", q |-> q]

None == [kind |-> "none", q |-> 0]

IsNum(x) == x.kind \in {"int", "float"}

KindOf(x, y) == IF x.kind = "int" /\ y.kind = "int" THEN "int" ELSE "float"

\* x + y and x - y of Python
Add(x, y) == [kind |-> KindOf(x, y), q |-> x.q + y.q]

Sub(x, y) == [kind |-> KindOf(x, y), q |-> x.q - y.q]

\* delta/2 of Python 2 (line 126; the module has no "from __future__ import
\* division"): int/int is floor division, float/int is true division
Halve(x) ==
    IF x.kind = "int" THEN IntNum((x.q \div 4) \div 2)
    ELSE FloatNum(x.q \div 2)

\* the values of params[dparam] explored: ints and floats k/4
DerivValues ==
    {IntNum(n) : n \in -MaxNum..MaxNum} \cup {FloatNum(q) : q \in -MaxNum..MaxNum}

\* the steps explored: non-zero ints, non-zero floats k/2 and the default None
DerivSteps ==
    {IntNum(n) : n \in (-MaxNum..MaxNum) \ {0}}
    \cup {FloatNum(2 * k) : k \in (-MaxNum..MaxNum) \ {0}}
    \cup {None}

\* derivative is not running
DerivIdle ==
    /\ dpc = "idle"
    /\ dvalue = IntNum(0)
    /\ dorig = IntNum(0)
    /\ delta = None
    /\ dcalls = <<>>

\* nothing is being written or parsed
IniIdle ==
    /\ inipc = "idle"
    /\ inidict = <<>>
    /\ initext = <<>>
    /\ iniresult = [error |-> "none", dict |-> <<>>]

RunInit(d, o) ==
    /\ defaults = d
    /\ params = o
    /\ p = EmptyDict
    /\ outputfiles = <<>>
    /\ paramfile = NoPath
    /\ result = [k \in {} |-> ""]
    /\ mainpc = "call"
    /\ mi = 0
    /\ err = NoErr
    /\ fs = {}
    /\ created = {}
    /\ fifo = [f \in {} |-> [r |-> {}, w |-> {}, data |-> "none"]]
    /\ woken = {}
    /\ wppc = "notstarted"
    /\ paramtext = EmptyDict
    /\ ropc = "notstarted"
    /\ ri = 0
    /\ read_any = FALSE
    /\ ro_started = FALSE
    /\ childpc = "notstarted"
    /\ childCur = NoPath
    /\ childOpened = {}
    /\ received = EmptyDict
    /\ status = 0
    /\ stdout = ""
    /\ undecoded = {}
    /\ callno = 1
    /\ peerpc = "idle"
    /\ peerpath = NoPath
    /\ peerFifos = {}
    /\ peerCreated = {}
    /\ crossed = {}

InitWith(d, o) == RunInit(d, o) /\ DerivIdle /\ IniIdle

(* ------------------------------- FIFOs --------------------------------- *)

\* x is inside an open() that has not returned
Blocked(x) ==
    CASE x = "wp" -> wppc = "open_wait"
      [] x = "ro" -> ropc = "open_wait"
      [] x = "main" -> mainpc = "unblock_wait"
      [] OTHER -> childpc \in {"param_wait", "out_wait"}

Other(mode) == IF mode = "r" THEN "w" ELSE "r"

\* open(2) of a FIFO: the opener is counted at once and wakes the openers
\* blocked on the other end; the call returns at once iff the other end is
\* held, else it blocks until an opener of the other end arrives
Partnered(f, mode) == fifo[f][Other(mode)] # {}

OpenFifo(x, f, mode) ==
    /\ fifo' = [fifo EXCEPT ![f][mode] = @ \cup {x}]
    /\ woken' = woken \cup {y \in fifo[f][Other(mode)] : Blocked(y)}

\* a blocked open() returns once a partner has arrived
OpenReturns(x) ==
    /\ x \in woken
    /\ woken' = woken \ {x}

CloseFifo(x, f, mode) == fifo' = [fifo EXCEPT ![f][mode] = @ \ {x}]

\* the path f names a FIFO that the other of two concurrent runs created
Foreign(f) == f \in peerFifos

(* ----------------------- __call__: lines 69-85 ------------------------- *)

\* p and self.defaults are one dict object: what is stored into p is
\* stored into self.defaults
Aliased(d, q) == q

\* line 69: p = self.defaults.copy() is a dict of its own, so self.defaults
\* (d) is what it was after lines 70, 71 and 81 have made p the mapping q
Copied(d, q) == d

\* lines 69-71: copy the defaults, update with the call's parameters, pop
\* every key of _output_files
Merge ==
    /\ mainpc = "call"
    /\ p' = PopAll(Update(defaults, params), DOMAIN _output_files)
    /\ defaults' = Copied(defaults, p')
    /\ mainpc' = "plan"
    /\ UNCHANGED <<frameVars, params, outputfiles, paramfile, result, mi, err>>
    /\ UNCHANGED <<fsVars, kernelVars, wpVars, roVars, childVars>>

\* lines 73-78: KeyError on a missing switch, else the list outputfiles
Plan ==
    /\ mainpc = "plan"
    /\ IF MissingSwitch(p)
       THEN /\ mainpc' = "raised"
            /\ err' = Raised("KeyError")
            /\ UNCHANGED <<outputfiles, mi>>
       ELSE /\ outputfiles' = PlanOf(p)
            /\ mi' = 1
            /\ mainpc' = "mktemp"
            /\ err' = err
    /\ UNCHANGED <<frameVars, inputVars, p, paramfile, result>>
    /\ UNCHANGED <<fsVars, kernelVars, wpVars, roVars, childVars>>

\* line 81: p[k] = mktemp(suffix='_%s' % k); after the loop, line 84
MkTemp ==
    /\ mainpc = "mktemp"
    /\ IF mi <= Len(outputfiles)
       THEN /\ \E path \in mktemp(outputfiles[mi]) :
                  p' = SetItem(p, outputfiles[mi], path)
            /\ paramfile' = paramfile
       ELSE /\ \E path \in mktemp("param") : paramfile' = path
            /\ p' = p
    /\ defaults' = Copied(defaults, p')
    /\ mainpc' = "mkfifo"
    /\ UNCHANGED <<frameVars, params, outputfiles, result, mi, err>>
    /\ UNCHANGED <<fsVars, kernelVars, wpVars, roVars, childVars>>

\* the path the pending os.mkfifo is called with
MkFifoPath == IF mi <= Len(outputfiles) THEN p[outputfiles[mi]] ELSE paramfile

\* lines 82 and 85: os.mkfifo creates the FIFO; line 87 after the last one
MkFifo ==
    /\ mainpc = "mkfifo"
    /\ MkFifoPath \notin fs
    /\ fs' = fs \cup {MkFifoPath}
    /\ created' = created \cup {MkFifoPath}
    /\ fifo' = [f \in created \cup {MkFifoPath} |->
                  IF f = MkFifoPath THEN [r |-> {}, w |-> {}, data |-> "none"]
                  ELSE fifo[f]]
    /\ IF mi <= Len(outputfiles)
       THEN /\ mi' = mi + 1
            /\ mainpc' = "mktemp"
       ELSE /\ mi' = 0
            /\ mainpc' = "start_wp"
    /\ UNCHANGED <<frameVars, inputVars, p, outputfiles, paramfile, result, err>>
    /\ UNCHANGED <<woken, wpVars, roVars, childVars>>

\* lines 82 and 85: os.mkfifo raises OSError (the path exists, or the system
\* refuses), and the exception leaves __call__
MkFifoFails ==
    /\ mainpc = "mkfifo"
    /\ mainpc' = "raised"
    /\ err' = Raised("OSError")
    /\ UNCHANGED <<frameVars, inputVars, p, outputfiles, paramfile, result, mi>>
    /\ UNCHANGED <<fsVars, kernelVars, wpVars, roVars, childVars>>

(* --------------------- __call__: lines 101-112 ------------------------- *)

\* lines 101-102: start the writeparams thread
StartWriter ==
    /\ mainpc = "start_wp"
    /\ wppc' = "start"
    /\ mainpc' = "start_ro"
    /\ UNCHANGED <<frameVars, inputVars, p, outputfiles, paramfile, result, mi, err>>
    /\ UNCHANGED <<fsVars, kernelVars, paramtext, roVars, childVars>>

\* lines 104-107: read_any = [False], ro_started = Event(), start the
\* readoutputs thread
StartReader ==
    /\ mainpc = "start_ro"
    /\ ropc' = "start"
    /\ read_any' = FALSE
    /\ ro_started' = FALSE
    /\ mainpc' = "wait_ro"
    /\ UNCHANGED <<frameVars, inputVars, p, outputfiles, paramfile, result, mi, err>>
    /\ UNCHANGED <<fsVars, kernelVars, wpVars, ri, childVars>>

\* line 108: ro_started.wait()
WaitReaderStarted ==
    /\ mainpc = "wait_ro"
    /\ ro_started
    /\ mainpc' = "exec"
    /\ UNCHANGED <<frameVars, inputVars, p, outputfiles, paramfile, result, mi, err>>
    /\ UNCHANGED <<fsVars, kernelVars, wpVars, roVars, childVars>>

\* line 111: check_output starts the executable with paramfile as argument
Launch ==
    /\ mainpc = "exec"
    /\ childpc' = "start"
    /\ mainpc' = "wait_child"
    /\ UNCHANGED <<frameVars, inputVars, p, outputfiles, paramfile, result, mi, err>>
    /\ UNCHANGED <<fsVars, kernelVars, wpVars, roVars>>
    /\ UNCHANGED <<childCur, childOpened, received, status, stdout>>

\* line 111: the executable cannot be started; check_output raises OSError
LaunchFails ==
    /\ mainpc = "exec"
    /\ mainpc' = "raised"
    /\ err' = Raised("OSError")
    /\ UNCHANGED <<frameVars, inputVars, p, outputfiles, paramfile, result, mi>>
    /\ UNCHANGED <<fsVars, kernelVars, wpVars, roVars, childVars>>

\* lines 111-112: check_output returns the captured output once the
\* executable has exited with status 0 and raises CalledProcessError
\* otherwise
CheckOutput ==
    /\ mainpc = "wait_child"
    /\ childpc = "exited"
    /\ IF status = 0
       THEN /\ result' = SetItem(result, "stdout", stdout)
            /\ mainpc' = "branch"
            /\ err' = err
       ELSE /\ err' = CalledProcessError(status, stdout)
            /\ mainpc' = "raised"
            /\ result' = result
    /\ UNCHANGED <<frameVars, inputVars, p, outputfiles, paramfile, mi>>
    /\ UNCHANGED <<fsVars, kernelVars, wpVars, roVars, childVars>>

(* --------------------- __call__: lines 114-122 ------------------------- *)

\* line 114: if read_any[0]
Branch ==
    /\ mainpc = "branch"
    /\ mainpc' = IF read_any THEN "join" ELSE "unblock"
    /\ mi' = 1
    /\ UNCHANGED <<frameVars, inputVars, p, outputfiles, paramfile, result, err>>
    /\ UNCHANGED <<fsVars, kernelVars, wpVars, roVars, childVars>>

\* line 115: ro_thread.join()
Join ==
    /\ mainpc = "join"
    /\ ropc \in {"done", "died"}
    /\ mainpc' = "unlink"
    /\ UNCHANGED <<frameVars, inputVars, p, outputfiles, paramfile, result, mi, err>>
    /\ UNCHANGED <<fsVars, kernelVars, wpVars, roVars, childVars>>

\* line 117: open(p[k],'a') for the next k, or the end of the loop
UnblockOpen ==
    /\ mainpc = "unblock"
    /\ IF mi <= Len(outputfiles)
       THEN /\ p[outputfiles[mi]] \in fs
            /\ OpenFifo("main", p[outputfiles[mi]], "w")
            /\ mainpc' = IF Partnered(p[outputfiles[mi]], "w")
                         THEN "unblock_close" ELSE "unblock_wait"
            /\ mi' = mi
       ELSE /\ mainpc' = "unlink"
            /\ mi' = 1
            /\ UNCHANGED kernelVars
    /\ UNCHANGED <<frameVars, inputVars, p, outputfiles, paramfile, result, err>>
    /\ UNCHANGED <<fsVars, wpVars, roVars, childVars>>

\* line 117: the blocked open(p[k],'a') returns
UnblockOpenReturns ==
    /\ mainpc = "unblock_wait"
    /\ OpenReturns("main")
    /\ mainpc' = "unblock_close"
    /\ UNCHANGED <<frameVars, inputVars, p, outputfiles, paramfile, result, mi, err>>
    /\ UNCHANGED <<fsVars, fifo, wpVars, roVars, childVars>>

\* line 117: .close()
UnblockClose ==
    /\ mainpc = "unblock_close"
    /\ CloseFifo("main", p[outputfiles[mi]], "w")
    /\ mi' = mi + 1
    /\ mainpc' = "unblock"
    /\ UNCHANGED <<frameVars, inputVars, p, outputfiles, paramfile, result, err>>
    /\ UNCHANGED <<fsVars, woken, wpVars, roVars, childVars>>

\* line 119: os.unlink(p[k]) for the next k (OSError if the path is gone),
\* or the end of the loop
Unlink ==
    /\ mainpc = "unlink"
    /\ IF mi > Len(outputfiles)
       THEN /\ mainpc' = "unlink_param"
            /\ UNCHANGED <<mi, err, fs, peerFifos, crossed>>
       ELSE IF p[outputfiles[mi]] \in fs
       THEN /\ fs' = fs \ {p[outputfiles[mi]]}
            /\ peerFifos' = peerFifos \ {p[outputfiles[mi]]}
            /\ crossed' = IF Foreign(p[outputfiles[mi]])
                          THEN crossed \cup {<<"main", p[outputfiles[mi]]>>}
                          ELSE crossed
            /\ mi' = mi + 1
            /\ UNCHANGED <<mainpc, err>>
       ELSE /\ mainpc' = "raised"
            /\ err' = Raised("OSError")
            /\ UNCHANGED <<mi, fs, peerFifos, crossed>>
    /\ UNCHANGED <<derivVars, iniVars, histVars, callVars, peerpc, peerpath, peerCreated>>
    /\ UNCHANGED <<inputVars, p, outputfiles, paramfile, result, created>>
    /\ UNCHANGED <<kernelVars, wpVars, roVars, childVars>>

\* lines 120-122: os.unlink(paramfile); return result
UnlinkParam ==
    /\ mainpc = "unlink_param"
    /\ fs' = fs \ {paramfile}
    /\ mainpc' = "returned"
    /\ UNCHANGED <<frameVars, inputVars, p, outputfiles, paramfile, result, mi, err, created>>
    /\ UNCHANGED <<kernelVars, wpVars, roVars, childVars>>

(* ----------------------- writeparams: lines 89-91 ---------------------- *)

\* line 90: open(paramfile,'w').  If line 120 has already unlinked the
\* FIFO, the open creates a regular file of that name and returns at once.
WpOpen ==
    /\ wppc = "start"
    /\ IF Foreign(paramfile)
       THEN /\ wppc' = "foreign"
            /\ crossed' = crossed \cup {<<"wp", paramfile>>}
            /\ UNCHANGED <<fs, kernelVars>>
       ELSE IF paramfile \in fs
       THEN /\ OpenFifo("wp", paramfile, "w")
            /\ wppc' = IF Partnered(paramfile, "w") THEN "opened" ELSE "open_wait"
            /\ UNCHANGED <<fs, crossed>>
       ELSE /\ fs' = fs \cup {paramfile}
            /\ wppc' = "opened"
            /\ UNCHANGED <<kernelVars, crossed>>
    /\ UNCHANGED <<derivVars, iniVars, histVars, callVars, peerpc, peerpath, peerFifos, peerCreated>>
    /\ UNCHANGED <<inputVars, mainVars, created, paramtext, roVars, childVars>>

WpOpenReturns ==
    /\ wppc = "open_wait"
    /\ OpenReturns("wp")
    /\ wppc' = "opened"
    /\ UNCHANGED <<frameVars, inputVars, mainVars, fsVars, fifo, paramtext, roVars, childVars>>

\* line 91 and the end of the with block: write the items of p and END,
\* close the file
WpWrite ==
    /\ wppc = "opened"
    /\ paramtext' = p
    /\ CloseFifo("wp", paramfile, "w")
    /\ wppc' = "done"
    /\ UNCHANGED <<frameVars, inputVars, mainVars, fsVars, woken, roVars, childVars>>

(* ----------------------- readoutputs: lines 93-99 ---------------------- *)

\* line 94: ro_started.set()
RoSetStarted ==
    /\ ropc = "start"
    /\ ro_started' = TRUE
    /\ ri' = 1
    /\ ropc' = "loop"
    /\ UNCHANGED <<frameVars, inputVars, mainVars, fsVars, kernelVars, wpVars, read_any, childVars>>

\* lines 95-96: the next k of the loop and open(p[k]); IOError ends the
\* thread if the path is gone; the thread ends after the last k
RoOpen ==
    /\ ropc = "loop"
    /\ IF ri > Len(outputfiles)
       THEN /\ ropc' = "done"
            /\ UNCHANGED <<kernelVars, crossed>>
       ELSE IF Foreign(p[outputfiles[ri]])
       THEN /\ ropc' = "foreign"
            /\ crossed' = crossed \cup {<<"ro", p[outputfiles[ri]]>>}
            /\ UNCHANGED kernelVars
       ELSE IF p[outputfiles[ri]] \notin fs
       THEN /\ ropc' = "died"
            /\ UNCHANGED <<kernelVars, crossed>>
       ELSE /\ OpenFifo("ro", p[outputfiles[ri]], "r")
            /\ ropc' = IF Partnered(p[outputfiles[ri]], "r")
                       THEN "opened" ELSE "open_wait"
            /\ UNCHANGED crossed
    /\ UNCHANGED <<derivVars, iniVars, histVars, callVars, peerpc, peerpath, peerFifos, peerCreated>>
    /\ UNCHANGED <<inputVars, mainVars, fsVars, wpVars, ri, read_any, ro_started, childVars>>

RoOpenReturns ==
    /\ ropc = "open_wait"
    /\ OpenReturns("ro")
    /\ ropc' = "opened"
    /\ UNCHANGED <<frameVars, inputVars, mainVars, fsVars, fifo, wpVars, ri, read_any, ro_started, childVars>>

\* line 97: read_any[0]=True
RoSetReadAny ==
    /\ ropc = "opened"
    /\ read_any' = TRUE
    /\ ropc' = "read"
    /\ UNCHANGED <<frameVars, inputVars, mainVars, fsVars, kernelVars, wpVars, ri, ro_started, childVars>>

\* lines 98-99: loadtxt reads to end of file, which comes once no writer
\* holds the FIFO; a table is stored under the result name, an exception is
\* swallowed
RoRead ==
    /\ ropc = "read"
    /\ fifo[p[outputfiles[ri]]].w = {}
    /\ \E t \in loadtxt(fifo[p[outputfiles[ri]]].data) :
          /\ result' = IF t = "fail" THEN result
                       ELSE SetItem(result, _output_files[outputfiles[ri]], t)
          /\ undecoded' = IF t = "fail" THEN undecoded \cup {ri} ELSE undecoded
    /\ fifo' = [fifo EXCEPT ![p[outputfiles[ri]]].data = "none"]
    /\ ropc' = "close"
    /\ UNCHANGED <<derivVars, iniVars, callVars, peerVars, inputVars, p, outputfiles, paramfile, mainpc, mi, err>>
    /\ UNCHANGED <<fsVars, woken, wpVars, ri, read_any, ro_started, childVars>>

\* the end of the with block of line 96: close the file
RoClose ==
    /\ ropc = "close"
    /\ CloseFifo("ro", p[outputfiles[ri]], "r")
    /\ ri' = ri + 1
    /\ ropc' = "loop"
    /\ UNCHANGED <<frameVars, inputVars, mainVars, fsVars, woken, wpVars, read_any, ro_started, childVars>>

(* --------------------------- the executable ---------------------------- *)

\* the executable opens the parameter file named by its argument
ChildOpenParam ==
    /\ childpc = "start"
    /\ OpenFifo("child", paramfile, "r")
    /\ childpc' = IF Partnered(paramfile, "r") THEN "param_open" ELSE "param_wait"
    /\ childCur' = paramfile
    /\ UNCHANGED <<frameVars, inputVars, mainVars, fsVars, wpVars, roVars>>
    /\ UNCHANGED <<childOpened, received, status, stdout>>

ChildOpenParamReturns ==
    /\ childpc = "param_wait"
    /\ OpenReturns("child")
    /\ childpc' = "param_open"
    /\ UNCHANGED <<frameVars, inputVars, mainVars, fsVars, fifo, wpVars, roVars>>
    /\ UNCHANGED <<childCur, childOpened, received, status, stdout>>

\* the executable reads the parameter file to its END line and closes it
ChildReadParam ==
    /\ childpc = "param_open"
    /\ wppc = "done"
    /\ received' = paramtext
    /\ CloseFifo("child", paramfile, "r")
    /\ childpc' = "run"
    /\ childCur' = NoPath
    /\ UNCHANGED <<frameVars, inputVars, mainVars, fsVars, woken, wpVars, roVars>>
    /\ UNCHANGED <<childOpened, status, stdout>>

\* the FIFO paths the executable has been given in its parameters
Told == {received[k] : k \in DOMAIN received} \cap created

\* the executable opens for writing an output file it has not opened yet,
\* in the order it chooses
ChildOpenOut ==
    /\ childpc = "run"
    /\ \E f \in Told \ childOpened :
          /\ OpenFifo("child", f, "w")
          /\ childpc' = IF Partnered(f, "w") THEN "out_open" ELSE "out_wait"
          /\ childCur' = f
          /\ childOpened' = childOpened \cup {f}
    /\ UNCHANGED <<frameVars, inputVars, mainVars, fsVars, wpVars, roVars>>
    /\ UNCHANGED <<received, status, stdout>>

ChildOpenOutReturns ==
    /\ childpc = "out_wait"
    /\ OpenReturns("child")
    /\ childpc' = "out_open"
    /\ UNCHANGED <<frameVars, inputVars, mainVars, fsVars, fifo, wpVars, roVars>>
    /\ UNCHANGED <<childCur, childOpened, received, status, stdout>>

\* the executable writes the file (a table, something else, or nothing) and
\* closes it
ChildWriteClose ==
    /\ childpc = "out_open"
    /\ \E c \in Contents :
          fifo' = [fifo EXCEPT ![childCur].data = c, ![childCur].w = @ \ {"child"}]
    /\ childpc' = "run"
    /\ childCur' = NoPath
    /\ UNCHANGED <<frameVars, inputVars, mainVars, fsVars, woken, wpVars, roVars>>
    /\ UNCHANGED <<childOpened, received, status, stdout>>

\* the executable exits, with any status and any output, whenever it is not
\* inside a file operation
ChildExit ==
    /\ childpc \in {"start", "run"}
    /\ \E s \in ExitStatuses, out \in Outputs :
          /\ status' = s
          /\ stdout' = out
    /\ childpc' = "exited"
    /\ UNCHANGED <<frameVars, inputVars, mainVars, fsVars, kernelVars, wpVars, roVars>>
    /\ UNCHANGED <<childCur, childOpened, received>>

(* --------------------------- specifications ---------------------------- *)

RunEnded == mainpc \in {"returned", "raised"}

MainStep ==
    \/ Merge \/ Plan \/ MkTemp \/ MkFifo \/ MkFifoFails
    \/ StartWriter \/ StartReader \/ WaitReaderStarted
    \/ Launch \/ LaunchFails \/ CheckOutput
    \/ Branch \/ Join \/ UnblockOpen \/ UnblockOpenReturns \/ UnblockClose
    \/ Unlink \/ UnlinkParam

WriterStep == WpOpen \/ WpOpenReturns \/ WpWrite

ReaderStep == RoSetStarted \/ RoOpen \/ RoOpenReturns \/ RoSetReadAny \/ RoRead \/ RoClose

ChildStep ==
    \/ ChildOpenParam \/ ChildOpenParamReturns \/ ChildReadParam
    \/ ChildOpenOut \/ ChildOpenOutReturns \/ ChildWriteClose \/ ChildExit

Next == MainStep \/ WriterStep \/ ReaderStep \/ ChildStep

Init == \E io \in RunInputs : InitWith(io[1], io[2])

Spec == Init /\ [][Next]_vars

\* the sequential head of __call__ (lines 69-85) on every input
NextPlan == Merge \/ Plan \/ MkTemp \/ MkFifo \/ MkFifoFails

InitPlan == \E d \in DefaultsInputs, o \in Overrides : InitWith(d, o)

SpecPlan == InitPlan /\ [][NextPlan]_vars

(* ------------------- several invocations of one handle ----------------- *)

\* the **params of the invocations: none, a switch with a key of the
\* defaults overridden, a switch with a stripped key overridden
CallInputs ==
    {EmptyDict,
     Update([k \in {"get_scalar_cls"} |-> Text("T")], [k \in {"l_max_scalar"} |-> Text("usr")]),
     Update([k \in {"get_vector_cls"} |-> Text("T")], [k \in {"vector_output_file"} |-> Text("usr")])}

\* the defaults the handle is constructed with
CallDefaults == {_defaults, PopAll(_defaults, {"get_transfer"})}

\* The next invocation on the handle, made once the last one has returned
\* or raised and none of its threads can run any more: the locals of
\* __call__ are new, self.defaults and the file system are what the last
\* invocation left.  A thread of the last invocation that is blocked for
\* ever stays behind with the locals of that invocation.
CallAgain ==
    /\ RunEnded
    /\ callno < MaxCalls
    /\ ~ENABLED (WriterStep \/ ReaderStep \/ ChildStep)
    /\ callno' = callno + 1
    /\ \E o \in CallInputs : params' = o
    /\ p' = EmptyDict
    /\ outputfiles' = <<>>
    /\ paramfile' = NoPath
    /\ result' = [k \in {} |-> ""]
    /\ mainpc' = "call"
    /\ mi' = 0
    /\ err' = NoErr
    /\ created' = {}
    /\ fifo' = [f \in {} |-> [r |-> {}, w |-> {}, data |-> "none"]]
    /\ woken' = {}
    /\ wppc' = "notstarted"
    /\ paramtext' = EmptyDict
    /\ ropc' = "notstarted"
    /\ ri' = 0
    /\ read_any' = FALSE
    /\ ro_started' = FALSE
    /\ childpc' = "notstarted"
    /\ childCur' = NoPath
    /\ childOpened' = {}
    /\ received' = EmptyDict
    /\ status' = 0
    /\ stdout' = ""
    /\ undecoded' = {}
    /\ UNCHANGED <<derivVars, iniVars, peerVars, defaults, fs>>

NextCalls == Next \/ CallAgain

InitCalls == \E d \in CallDefaults, o \in CallInputs : InitWith(d, o)

SpecCalls == InitCalls /\ [][NextCalls]_vars

(* ------------------ two concurrent runs of one handle ------------------ *)

\* The second run is followed through what it does to the file system
\* (lines 80-85 and 119-120); the first run is the full run above.  A task
\* of the first run that opens a FIFO of the second run is left inside that
\* open (wppc, ropc = "foreign"): how it goes on depends on the threads of
\* the second run.

\* the suffixes of the second run: its planned keys and the parameter file
PeerSuffixes == {"scalar_output_file", "lensed_output_file", "param"}

\* the second __call__ is entered while the first has not left its own
PeerCall ==
    /\ peerpc = "idle"
    /\ ~RunEnded
    /\ peerpc' = "mktemp"
    /\ UNCHANGED <<peerpath, peerFifos, peerCreated, crossed>>
    /\ UNCHANGED <<derivVars, iniVars, histVars, callVars>>
    /\ UNCHANGED <<inputVars, mainVars, fsVars, kernelVars, wpVars, roVars, childVars>>

\* lines 81 and 84 of the second run: a planned key not yet served, or the
\* parameter file, which comes last
PeerMkTemp ==
    /\ peerpc = "mktemp"
    /\ \E sfx \in PeerSuffixes \ {f[2] : f \in peerCreated} :
          /\ Cardinality(peerCreated) < MaxPeerFifos - 1 \/ sfx = "param"
          /\ \E path \in mktemp(sfx) : peerpath' = path
    /\ peerpc' = "mkfifo"
    /\ UNCHANGED <<peerFifos, peerCreated, crossed>>
    /\ UNCHANGED <<derivVars, iniVars, histVars, callVars>>
    /\ UNCHANGED <<inputVars, mainVars, fsVars, kernelVars, wpVars, roVars, childVars>>

\* lines 82 and 85 of the second run: os.mkfifo, OSError if the path exists
PeerMkFifo ==
    /\ peerpc = "mkfifo"
    /\ IF peerpath \in fs
       THEN /\ peerpc' = "raised"
            /\ UNCHANGED <<fs, peerFifos, peerCreated>>
       ELSE /\ fs' = fs \cup {peerpath}
            /\ peerFifos' = peerFifos \cup {peerpath}
            /\ peerCreated' = peerCreated \cup {peerpath}
            /\ peerpc' = IF peerpath[2] = "param" THEN "run" ELSE "mktemp"
    /\ UNCHANGED <<peerpath, crossed>>
    /\ UNCHANGED <<derivVars, iniVars, histVars, callVars>>
    /\ UNCHANGED <<inputVars, mainVars, created, kernelVars, wpVars, roVars, childVars>>

\* lines 119-122 of the second run: it unlinks its FIFOs and returns;
\* OSError if the first run has unlinked one of them
PeerUnlink ==
    /\ peerpc = "run"
    /\ IF peerFifos # {}
       THEN /\ \E f \in peerFifos :
                  /\ fs' = fs \ {f}
                  /\ peerFifos' = peerFifos \ {f}
            /\ UNCHANGED peerpc
       ELSE /\ peerpc' = IF \E c \in crossed : c[1] = "main" THEN "raised" ELSE "returned"
            /\ UNCHANGED <<fs, peerFifos>>
    /\ UNCHANGED <<peerpath, peerCreated, crossed>>
    /\ UNCHANGED <<derivVars, iniVars, histVars, callVars>>
    /\ UNCHANGED <<inputVars, mainVars, created, kernelVars, wpVars, roVars, childVars>>

PeerStep == PeerCall \/ PeerMkTemp \/ PeerMkFifo \/ PeerUnlink

NextTwo == Next \/ PeerStep

\* the **params of the first run
TwoInputs ==
    {[k \in {"get_scalar_cls"} |-> Text("T")], [k \in {"do_lensing"} |-> Text("T")]}

InitTwo == \E o \in TwoInputs : InitWith(_defaults, o)

SpecTwo == InitTwo /\ [][NextTwo]_vars

(* ------------- the parameter text and _read_ini (89-91, 154-159) ------- *)

\* For the text itself a string is the sequence of its characters.  The
\* keys and values explored hold no newline, keys are not empty and do not
\* start with a blank or a bracket.
Blank == {" "}

UpperCase == <<"A", "E", "R", "T">>

LowerCase == <<"a", "e", "r", "t">>

\* c.lower()
LowerChar(c) ==
    IF \E i \in DOMAIN UpperCase : UpperCase[i] = c
    THEN LowerCase[CHOOSE i \in DOMAIN UpperCase : UpperCase[i] = c]
    ELSE c

\* s.lower(), the optionxform of RawConfigParser
lower(s) == [i \in DOMAIN s |-> LowerChar(s[i])]

RECURSIVE rstrip(_)
rstrip(s) ==
    IF s # <<>> /\ s[Len(s)] \in Blank THEN rstrip(SubSeq(s, 1, Len(s) - 1)) ELSE s

RECURSIVE lstrip(_)
lstrip(s) ==
    IF s # <<>> /\ s[1] \in Blank THEN lstrip(Tail(s)) ELSE s

strip(s) == lstrip(rstrip(s))

\* s.find of the first character that is in cs: its index from 1, or 0
Find(s, cs) ==
    IF \E i \in DOMAIN s : s[i] \in cs
    THEN CHOOSE i \in DOMAIN s : s[i] \in cs /\ \A j \in 1..(i - 1) : s[j] \notin cs
    ELSE 0

\* line 91: '%s = %s' % (k, v)
FormatItem(k, v) == k \o <<" ", "=", " ">> \o v

\* the orders in which p.items() can list the keys of q
ItemOrders(q) ==
    {o \in [1..Cardinality(DOMAIN q) -> DOMAIN q] :
        \A k \in DOMAIN q : \E i \in DOMAIN o : o[i] = k}

\* line 91: the pieces that '\n'.join puts together, for the item order o
Serialize(q, o) ==
    [i \in DOMAIN o |-> FormatItem(o[i], q[o[i]])] \o <<<<"E", "N", "D">>, <<>>>>

\* the lines readline yields for joined pieces: the last piece is followed
\* by no newline and is empty here
ReadLines(pieces) ==
    IF pieces # <<>> /\ pieces[Len(pieces)] = <<>>
    THEN SubSeq(pieces, 1, Len(pieces) - 1) ELSE pieces

\* line.split(None, 1)[0] of a line that is not blank
FirstWord(line) ==
    LET l == lstrip(line)
        e == Find(l, Blank)
    IN IF e = 0 THEN l ELSE SubSeq(l, 1, e - 1)

\* RawConfigParser skips blank lines, lines starting with # or ; and lines
\* whose first word is rem
IsComment(line) ==
    \/ strip(line) = <<>>
    \/ line[1] \in {"#", ";"}
    \/ lower(FirstWord(line)) = <<"r", "e", "m">> /\ line[1] \in {"r", "R"}

\* SECTCRE: a line "[header]..."
IsHeader(line) == line[1] = "[" /\ Find(line, {"]"}) > 2

Header(line) == SubSeq(line, 2, Find(line, {"]"}) - 1)

\* OPTCRE: option, one of : and =, value; the option starts with neither a
\* blank nor a delimiter
IsOption(line) == line[1] \notin Blank /\ Find(line, {":", "="}) > 1

OptionName(line) == lower(rstrip(SubSeq(line, 1, Find(line, {":", "="}) - 1)))

\* the value: an inline comment " ;..." is cut off, the rest is stripped,
\* and "" stands for the empty string
OptionValue(line) ==
    LET optval == lstrip(SubSeq(line, Find(line, {":", "="}) + 1, Len(line)))
        pos == Find(optval, {";"})
        before == IF pos = 1 THEN optval[Len(optval)] ELSE optval[pos - 1]
        cut == IF pos > 0 /\ before \in Blank
               THEN SubSeq(optval, 1, pos - 1) ELSE optval
    IN IF strip(cut) = <<"\"", "\"">> THEN <<>> ELSE strip(cut)

ParsingError == [error |-> "ParsingError", dict |-> <<>>]

\* RawConfigParser._read from line i on: sect is the current section, d the
\* options of section root so far, bad whether a line matched nothing
RECURSIVE ReadFrom(_, _, _, _, _)
ReadFrom(lines, i, sect, d, bad) ==
    IF i > Len(lines)
    THEN IF bad THEN ParsingError ELSE [error |-> "none", dict |-> d]
    ELSE LET line == lines[i] IN
         IF IsComment(line) THEN ReadFrom(lines, i + 1, sect, d, bad)
         ELSE IF IsHeader(line) THEN ReadFrom(lines, i + 1, Header(line), d, bad)
         ELSE IF IsOption(line)
         THEN ReadFrom(lines, i + 1, sect,
                       IF sect = <<"r", "o", "o", "t">>
                       THEN [k \in DOMAIN d \cup {OptionName(line)} |->
                               IF k = OptionName(line) THEN OptionValue(line) ELSE d[k]]
                       ELSE d,
                       bad)
         ELSE ReadFrom(lines, i + 1, sect, d, TRUE)

\* lines 154-159: parse '[root]\n' + ini and return the options of root
_read_ini(pieces) ==
    ReadFrom(<<<<"[", "r", "o", "o", "t", "]">>>> \o ReadLines(pieces), 1, <<>>, <<>>, FALSE)

\* the keys and the values of the mappings that are written and re-read
IniKeys == {<<"a">>, <<"A">>, <<"r", "e", "m">>, <<"t", "(", "1", ")">>}

IniValues == {<<"1">>, <<>>, <<"T", " ">>, <<"x", " ", ";", "y">>}

IniDicts == UNION {[ks -> IniValues] : ks \in SUBSET IniKeys}

\* lines 89-91: the text that writeparams writes for the mapping inidict
IniWrite ==
    /\ inipc = "write"
    /\ \E o \in ItemOrders(inidict) : initext' = Serialize(inidict, o)
    /\ inipc' = "written"
    /\ UNCHANGED <<inidict, iniresult>>
    /\ UNCHANGED <<histVars, callVars, peerVars, derivVars, inputVars, mainVars, fsVars, kernelVars, wpVars, roVars, childVars>>

\* lines 154-159 applied to that text
IniRead ==
    /\ inipc = "written"
    /\ iniresult' = _read_ini(initext)
    /\ inipc' = "parsed"
    /\ UNCHANGED <<inidict, initext>>
    /\ UNCHANGED <<histVars, callVars, peerVars, derivVars, inputVars, mainVars, fsVars, kernelVars, wpVars, roVars, childVars>>

NextIni == IniWrite \/ IniRead

InitIni ==
    /\ RunInit(_defaults, EmptyDict)
    /\ DerivIdle
    /\ inipc = "write"
    /\ inidict \in IniDicts
    /\ initext = <<>>
    /\ iniresult = [error |-> "none", dict |-> <<>>]

SpecIni == InitIni /\ [][NextIni]_vars

(* ---------------------- derivative (lines 124-135) --------------------- *)

\* Each self(**params) of lines 127 and 129 is one step here: the call gets
\* the current items of params (** builds a new dict for the callee, so the
\* callee cannot change params) and either returns a result or raises.

\* line 126: params[dparam] += delta/2, on the dict the caller passed in
PerturbUp ==
    /\ dpc = "half_up"
    /\ IF IsNum(delta)
         THEN /\ dvalue' = Add(dvalue, Halve(delta))
              /\ dpc' = "call_high"
         ELSE \* delta=None (the default): None/2 raises TypeError
              /\ dpc' = "raised"
              /\ UNCHANGED dvalue
    /\ UNCHANGED <<dorig, delta, dcalls>>
    /\ UNCHANGED <<histVars, callVars, peerVars, iniVars, inputVars, mainVars, fsVars, kernelVars, wpVars, roVars, childVars>>

\* line 127: d1 = self(**params)
CallHigh ==
    /\ dpc = "call_high"
    /\ dcalls' = Append(dcalls, dvalue)
    /\ dpc' \in {"full_down", "raised"}
    /\ UNCHANGED <<dvalue, dorig, delta>>
    /\ UNCHANGED <<histVars, callVars, peerVars, iniVars, inputVars, mainVars, fsVars, kernelVars, wpVars, roVars, childVars>>

\* line 128: params[dparam] -= delta
PerturbDown ==
    /\ dpc = "full_down"
    /\ dvalue' = Sub(dvalue, delta)
    /\ dpc' = "call_low"
    /\ UNCHANGED <<dorig, delta, dcalls>>
    /\ UNCHANGED <<histVars, callVars, peerVars, iniVars, inputVars, mainVars, fsVars, kernelVars, wpVars, roVars, childVars>>

\* line 129: d0 = self(**params)
CallLow ==
    /\ dpc = "call_low"
    /\ dcalls' = Append(dcalls, dvalue)
    /\ dpc' \in {"combine", "raised"}
    /\ UNCHANGED <<dvalue, dorig, delta>>
    /\ UNCHANGED <<histVars, callVars, peerVars, iniVars, inputVars, mainVars, fsVars, kernelVars, wpVars, roVars, childVars>>

\* lines 131-135: the difference quotient is formed in d1 and returned;
\* params is not touched again
Combine ==
    /\ dpc = "combine"
    /\ dpc' = "returned"
    /\ UNCHANGED <<dvalue, dorig, delta, dcalls>>
    /\ UNCHANGED <<histVars, callVars, peerVars, iniVars, inputVars, mainVars, fsVars, kernelVars, wpVars, roVars, childVars>>

NextDeriv == PerturbUp \/ CallHigh \/ PerturbDown \/ CallLow \/ Combine

InitDeriv ==
    /\ RunInit(_defaults, EmptyDict)
    /\ dpc = "half_up"
    /\ dorig \in DerivValues
    /\ dvalue = dorig
    /\ delta \in DerivSteps
    /\ dcalls = <<>>
    /\ IniIdle

SpecDeriv == InitDeriv /\ [][NextDeriv]_vars

(* ------------------------------ properties ----------------------------- *)

\* what the caller of __call__ holds of the dict result: the dict itself
\* after line 122, nothing when an exception left the call
Delivered == IF mainpc = "returned" THEN result ELSE [k \in {} |-> ""]

\* no thread and no process can take a step any more
Quiescent == ~ENABLED Next

SomeoneBlocked == \E x \in {"main", "wp", "ro", "child"} : Blocked(x)

\* the executable has drained the parameter FIFO
Drained == received # EmptyDict

\* the executable has so far behaved as a run of CAMB that produces every
\* file it was told about: if it has exited, it had drained the parameters,
\* opened and closed every output path given to it, and exited with 0
Cooperative ==
    /\ childpc # "notstarted"
    /\ childpc = "exited" => (Drained /\ childOpened = Told /\ status = 0)

\* C1: deadlock-freedom.  A run with a cooperative executable cannot come
\* to rest anywhere but after the return of __call__, with the reader
\* finished and nobody left inside an open().
C1_DeadlockFree ==
    (Quiescent /\ Cooperative) =>
        (mainpc = "returned" /\ ropc = "done" /\ ~SomeoneBlocked)

\* C2: partial skip.  When the executable has exited with status 0 having
\* opened every output path but one, the run cannot come to rest anywhere
\* but after the return of __call__, and the result has no entry for the
\* skipped file.
C2_PartialSkip ==
    (/\ Quiescent
     /\ childpc = "exited" /\ status = 0 /\ Drained
     /\ Cardinality(Told \ childOpened) = 1) =>
        /\ mainpc = "returned"
        /\ \A k \in Range(outputfiles) :
              p[k] \in Told \ childOpened => _output_files[k] \notin DOMAIN result

\* C3: cleanup on every exit path.  Whenever __call__ has returned or
\* raised, no FIFO created by the call exists any more.
C3_CleanupOnEveryExit == RunEnded => created \cap fs = {}

\* the reader thread is inside or past its first open()
ReaderAtOpen ==
    /\ ropc \notin {"notstarted", "start"}
    /\ ~(ropc = "loop" /\ ri = 1)

\* C4: readiness ordering.  The Event ro_started is set, and the executable
\* is started, only when the reader has reached its blocking open().
C4_ReadinessOrdering ==
    (Len(outputfiles) > 0 /\ (ro_started \/ childpc # "notstarted")) => ReaderAtOpen

\* C5: failure propagation.  Once the executable has exited with a status
\* other than 0 and check_output is over, __call__ has raised
\* CalledProcessError with that status and the captured output; it has not
\* returned.
C5_FailurePropagation ==
    (childpc = "exited" /\ status # 0 /\ mainpc # "wait_child") =>
        /\ mainpc = "raised"
        /\ err.type = "CalledProcessError"
        /\ err.returncode = status
        /\ err.output = stdout

C5_Witness ==
    /\ mainpc = "raised"
    /\ err.type = "CalledProcessError"
    /\ status = 2
    /\ stdout = "out_b"

\* C6: partial results survive process failure.  When __call__ has raised
\* CalledProcessError, every table the reader has stored is in what the
\* caller holds.
C6_PartialResultsSurvive ==
    (mainpc = "raised" /\ err.type = "CalledProcessError") =>
        \A k \in DOMAIN result : k \in DOMAIN Delivered /\ Delivered[k] = result[k]

\* the plan the rule table describes: one result name per switch that is
\* 'T', two for get_transfer
RuleTable(q) ==
    (IF q["get_scalar_cls"] = Text("T") THEN <<"scalar">> ELSE <<>>)
    \o (IF q["get_vector_cls"] = Text("T") THEN <<"vector">> ELSE <<>>)
    \o (IF q["get_tensor_cls"] = Text("T") THEN <<"tensor">> ELSE <<>>)
    \o (IF q["do_lensing"] = Text("T") THEN <<"lensed">> ELSE <<>>)
    \o (IF q["get_transfer"] = Text("T")
        THEN <<"transfer", "transfer_matterpower">> ELSE <<>>)

\* C7: output plan rule table.  Once the plan is made, the result names of
\* the list outputfiles are, in order, those of the rule table applied to
\* the merged parameters.
C7_PlanRuleTable ==
    mainpc \notin {"call", "plan", "raised"} =>
        [i \in 1..Len(outputfiles) |-> _output_files[outputfiles[i]]]
            = RuleTable(Update(defaults, params))

\* the value the right-biased union of the defaults and the call's
\* parameters has for k
Merged(k) == IF k \in DOMAIN params THEN params[k] ELSE defaults[k]

ReservedKeys ==
    {"scalar_output_file", "vector_output_file", "tensor_output_file",
     "total_output_file", "lensed_output_file", "lensed_total_output_file",
     "lens_potential_output_file", "transfer_filename(1)",
     "transfer_matterpower(1)"}

\* C9: reserved channel keys.  In the parameter set the executable has
\* read, every output-file path key is absent or bound to a FIFO created by
\* this call.
C9_ReservedKeys ==
    Drained =>
        \A k \in ReservedKeys : k \in DOMAIN received => received[k] \in created

\* C10: missing switch key.  When the merged parameters lack one of the
\* five switch keys, no FIFO is ever created, no thread and no executable
\* is ever started, and __call__ leaves the plan only by raising KeyError.
C10_MissingSwitchKey ==
    (\E k \in {"get_scalar_cls", "get_vector_cls", "get_tensor_cls",
               "do_lensing", "get_transfer"} :
        k \notin (DOMAIN defaults) \cup (DOMAIN params)) =>
        /\ created = {} /\ fs = {}
        /\ wppc = "notstarted" /\ ropc = "notstarted" /\ childpc = "notstarted"
        /\ mainpc \in {"call", "plan", "raised"}
        /\ mainpc = "raised" => err.type = "KeyError"

C10_Witness ==
    /\ mainpc = "raised"
    /\ err.type = "KeyError"
    /\ "get_transfer" \notin (DOMAIN defaults) \cup (DOMAIN params)

(* ----------------------------- derivative ------------------------------ *)

\* C11: when derivative returns it has invoked the orchestrator exactly
\* twice, first at v + step/2 and then at v - step/2 (v the original value
\* of the parameter): the two points are centered on v and differ by
\* exactly step, also for an integer v with an odd integer step.
C11_CenteredPair ==
    dpc = "returned" =>
        /\ Len(dcalls) = 2
        /\ 2 * dcalls[1].q = 2 * dorig.q + delta.q
        /\ 2 * dcalls[2].q = 2 * dorig.q - delta.q
        /\ dcalls[1].q - dcalls[2].q = delta.q

\* C17: after derivative has returned or failed, the caller's params holds
\* the original value of the perturbed parameter.
C17_CallerParamsRestored ==
    dpc \in {"returned", "raised"} => dvalue.q = dorig.q

(* ------------------------ FIFOs, tasks and flag ------------------------ *)

\* the threads of one run
Tasks == {"wp", "ro", "main"}

\* the tasks that hold f open or are inside an open() of f
Holders(f) == (fifo[f].r \cup fifo[f].w) \cap Tasks

\* C13: no FIFO path is unlinked more than once (an unlink never finds its
\* path gone), and none is unlinked while a task of the run still has it
\* open or is still blocked opening it.
C13_UnlinkOnceAndIdle ==
    [][/\ \A f \in fs \ fs' : Holders(f) = {}
       /\ ~(mainpc = "unlink" /\ mainpc' = "raised")]_vars

\* the paths of the planned channels as the writer transmits them
ToldPaths == {p[k] : k \in Range(outputfiles)}

\* C14: once the FIFOs are created, no two planned channels share a
\* parameter key, each created FIFO other than the parameter channel has its
\* path in the transmitted parameter set, and the number of FIFOs created
\* is the number of output paths told plus one.
C14_OneFifoPerChannel ==
    wppc # "notstarted" =>
        /\ \A i, j \in DOMAIN outputfiles :
              i # j => outputfiles[i] # outputfiles[j]
        /\ created \ {paramfile} \subseteq {p[k] : k \in DOMAIN p}
        /\ Cardinality(created) = Cardinality(ToldPaths) + 1

\* C16: when the orchestrator returns, the writer and the reader tasks have
\* both terminated, and no task writes into the result after the return.
C16_TasksEndBeforeReturn ==
    [][/\ mainpc' = "returned" => wppc' = "done" /\ ropc' \in {"done", "died"}
       /\ mainpc = "returned" => result' = result]_vars

\* the reader's open of some FIFO has returned
ReaderOpenReturned ==
    \/ ropc \in {"opened", "read", "close"}
    \/ ropc \in {"loop", "open_wait", "done", "died"} /\ ri > 1

\* C19: when the main task tests read_any (line 114) the flag is true iff
\* the reader's open of some FIFO has returned; the unblock branch is taken
\* only while the reader is still at the open of the first channel; and no
\* write-open of the unblock branch blocks for ever.
C19_FlagMatchesReader ==
    /\ mainpc = "branch" => (read_any <=> ReaderOpenReturned)
    /\ mainpc = "branch" /\ ~read_any /\ outputfiles # <<>> =>
          ropc \in {"loop", "open_wait"} /\ ri = 1
    /\ Quiescent => mainpc # "unblock_wait"

(* ------------------------- serialization text -------------------------- *)

\* C12: the text written to the parameter channel (the 'key = value' lines
\* and END), parsed again by _read_ini, gives the mapping that was
\* written: the same keys in the same case with the same values.
C12_RoundTrip ==
    inipc = "parsed" => iniresult.error = "none" /\ iniresult.dict = inidict

(* --------------------------- decode failure ---------------------------- *)

\* C15: a decode failure is not fatal and stays local.  The result key of
\* a channel whose bytes failed to decode stays absent, and a run with a
\* cooperative executable in which a decode failed comes to rest only after
\* the reader has gone through every later channel and __call__ has
\* returned with the standard output and the tables of the other channels.
C15_DecodeFailureLocal ==
    /\ \A i \in undecoded : _output_files[outputfiles[i]] \notin DOMAIN result
    /\ (Quiescent /\ Cooperative /\ undecoded # {}) =>
          /\ ropc = "done"
          /\ mainpc = "returned"
          /\ "stdout" \in DOMAIN result
          /\ \A j \in (DOMAIN outputfiles) \ undecoded :
                _output_files[outputfiles[j]] \in DOMAIN result

(* ------------------------------- defaults ------------------------------ *)

\* C20: the defaults are never mutated.  No step of any invocation on the
\* handle, with any overrides and whether the invocation returns or raises,
\* changes self.defaults: it stays the mapping loaded at construction.
C20_DefaultsNeverMutated == [][defaults' = defaults]_vars

\* a second invocation with overrides has injected FIFO paths and returned,
\* after a first one with overrides
C20_Witness ==
    /\ callno = 2
    /\ mainpc = "returned"
    /\ params # EmptyDict
    /\ created # {}
    /\ p # defaults

(* --------------------------- concurrent runs --------------------------- *)

\* C18: two runs that execute concurrently on one handle create disjoint
\* sets of FIFO paths, and no task of one run opens or unlinks a FIFO that
\* the other run created.
C18_IndependentRuns ==
    /\ created \cap peerCreated = {}
    /\ crossed = {}

====
